---- MODULE Spec2Model ----
(***************************************************************************)
(* Model of the content indexer of KakaoSkill/skill_server.py:             *)
(* ContentIndexer.reload_index, ContentIndexer.search and                  *)
(* ContentIndexer.get_by_category, with difflib.get_close_matches as the   *)
(* fuzzy tier.                                                             *)
(*                                                                         *)
(* A string is a sequence of one-character strings, <<"a"," ","b">> for    *)
(* "a b"; the alphabet is one whitespace character, one upper-case letter  *)
(* and two lower-case letters.                                             *)
(***************************************************************************)
EXTENDS Naturals, Integers, Sequences, FiniteSets, TLC

VARIABLES
  tree,    \* the document tree on disk that the latest reload_index read
  index,   \* ContentIndexer.index, the live list of records
  prev,    \* the list a running reload_index replaced, <<>> when none runs
  rl,      \* position of a running reload_index, or idle
  call     \* the query call that has run and not yet returned its response

vars == <<tree, index, prev, rl, call>>

----------------------------------------------------------------------------
(* Bounds and input pools *)

\* largest number of entries in the document tree
MaxDocs == 4

\* largest number of entries in the tree of the step-wise reload
MaxConcDocs == 2

\* folder names the document tree draws from
TitlePool ==
  { <<"A","b">>, <<"a","a","b">>, <<"a"," ","b">>, <<"a"," ","a">>,
    <<"a"," ","b"," ","a">> }

\* query strings handed to search
QueryPool ==
  { <<>>, <<" ">>, <<"a">>, <<"a","b">>, <<" ","A","b"," ">>,
    <<"a"," ","b">>, <<"b"," ","a">>, <<"a"," "," ","b">> }

\* query strings of the readers that run beside a step-wise reload
ConcQueryPool == { <<"a">> }

----------------------------------------------------------------------------
(* Strings *)

\* code points, which order Python strings
Code == (" " :> 32) @@ ("A" :> 65) @@ ("a" :> 97) @@ ("b" :> 98)

IsSpace(c) == c = " "

LowerChar(c) ==
  IF c = "A" THEN "a" ELSE IF c = "Q" THEN "q" ELSE IF c = "S" THEN "s"
  ELSE IF c = "T" THEN "t" ELSE IF c = "V" THEN "v" ELSE c

\* str.lower()
Lower(s) == [i \in 1..Len(s) |-> LowerChar(s[i])]

RECURSIVE LStrip(_)
LStrip(s) == IF s # <<>> /\ IsSpace(Head(s)) THEN LStrip(Tail(s)) ELSE s

RECURSIVE RStrip(_)
RStrip(s) ==
  IF s # <<>> /\ IsSpace(s[Len(s)]) THEN RStrip(SubSeq(s, 1, Len(s) - 1))
  ELSE s

\* str.strip()
Strip(s) == RStrip(LStrip(s))

\* q in t
Contains(t, q) ==
  \E i \in 0..(Len(t) - Len(q)) : SubSeq(t, i + 1, i + Len(q)) = q

\* length of the longest prefix of s without whitespace
RECURSIVE WordLen(_)
WordLen(s) ==
  IF s = <<>> \/ IsSpace(Head(s)) THEN 0 ELSE 1 + WordLen(Tail(s))

\* str.split(): the maximal runs of non-whitespace characters
RECURSIVE Split(_)
Split(s) ==
  LET u == LStrip(s)
      n == WordLen(u)
  IN IF u = <<>> THEN <<>>
     ELSE <<SubSeq(u, 1, n)>> \o Split(SubSeq(u, n + 1, Len(u)))

\* a < b for Python strings: lexicographic by code point
RECURSIVE StrLess(_, _)
StrLess(a, b) ==
  IF b = <<>> THEN FALSE
  ELSE IF a = <<>> THEN TRUE
  ELSE IF Code[Head(a)] # Code[Head(b)] THEN Code[Head(a)] < Code[Head(b)]
  ELSE StrLess(Tail(a), Tail(b))

----------------------------------------------------------------------------
(* difflib.get_close_matches(word, possibilities, n, cutoff) *)

\* n of the call at skill_server.py:219
FuzzyN == 5

\* cutoff of the call at skill_server.py:219, 0.4 as CutoffNum / CutoffDen
CutoffNum == 4
CutoffDen == 10

\* results below which the fuzzy tier runs
FuzzyGuard == 3

Min(x, y) == IF x < y THEN x ELSE y

\* a[i..i+k-1] = b[j..j+k-1]
BlockAt(a, b, i, j, k) ==
  /\ i + k - 1 <= Len(a)
  /\ j + k - 1 <= Len(b)
  /\ SubSeq(a, i, i + k - 1) = SubSeq(b, j, j + k - 1)

\* SequenceMatcher.find_longest_match without junk: the longest common block,
\* of those the one that starts earliest in a, of those the earliest in b
LongestMatch(a, b) ==
  LET Has(k) == \E i \in 1..Len(a), j \in 1..Len(b) : BlockAt(a, b, i, j, k)
      k == CHOOSE n \in 0..Min(Len(a), Len(b)) :
             /\ n = 0 \/ Has(n)
             /\ \A m \in (n + 1)..Min(Len(a), Len(b)) : ~Has(m)
      AtI(i) == \E j \in 1..Len(b) : BlockAt(a, b, i, j, k)
      i == CHOOSE x \in 1..Len(a) : AtI(x) /\ \A y \in 1..(x - 1) : ~AtI(y)
      j == CHOOSE x \in 1..Len(b) :
             BlockAt(a, b, i, x, k) /\ \A y \in 1..(x - 1) : ~BlockAt(a, b, i, y, k)
  IN IF k = 0 THEN [i |-> 0, j |-> 0, k |-> 0] ELSE [i |-> i, j |-> j, k |-> k]

\* SequenceMatcher.get_matching_blocks: total size of the blocks, the longest
\* match first and then the same to its left and to its right
RECURSIVE Matches(_, _)
Matches(a, b) ==
  LET m == LongestMatch(a, b)
  IN IF m.k = 0 THEN 0
     ELSE m.k + Matches(SubSeq(a, 1, m.i - 1), SubSeq(b, 1, m.j - 1))
              + Matches(SubSeq(a, m.i + m.k, Len(a)), SubSeq(b, m.j + m.k, Len(b)))

\* difflib._calculate_ratio, the float 2.0*matches/length as a fraction
CalculateRatio(matches, length) ==
  IF length > 0 THEN [num |-> 2 * matches, den |-> length]
  ELSE [num |-> 1, den |-> 1]

\* SequenceMatcher.ratio
Ratio(a, b) == CalculateRatio(Matches(a, b), Len(a) + Len(b))

Count(s, c) == Cardinality({i \in 1..Len(s) : s[i] = c})

RECURSIVE SumCommon(_, _, _)
SumCommon(a, b, cs) ==
  IF cs = {} THEN 0
  ELSE LET c == CHOOSE x \in cs : TRUE
       IN Min(Count(a, c), Count(b, c)) + SumCommon(a, b, cs \ {c})

\* SequenceMatcher.quick_ratio: the characters in common as multisets
QuickRatio(a, b) ==
  CalculateRatio(SumCommon(a, b, DOMAIN Code), Len(a) + Len(b))

\* SequenceMatcher.real_quick_ratio
RealQuickRatio(a, b) ==
  CalculateRatio(Min(Len(a), Len(b)), Len(a) + Len(b))

\* r >= cutoff
AtLeastCutoff(r) == r.num * CutoffDen >= CutoffNum * r.den

RatioLess(r, s) == r.num * s.den < s.num * r.den

\* (ratio(x), x) > (ratio(y), y) as Python tuples
ScoredAbove(x, y, word) ==
  \/ RatioLess(Ratio(y, word), Ratio(x, word))
  \/ /\ ~RatioLess(Ratio(x, word), Ratio(y, word))
     /\ StrLess(y, x)

RECURSIVE InsertScored(_, _, _)
InsertScored(x, s, word) ==
  IF s = <<>> THEN <<x>>
  ELSE IF ScoredAbove(x, Head(s), word) THEN <<x>> \o s
  ELSE <<Head(s)>> \o InsertScored(x, Tail(s), word)

\* sorted(result, reverse=True), which heapq.nlargest(n, result) cuts to n
RECURSIVE SortScored(_, _)
SortScored(s, word) ==
  IF s = <<>> THEN <<>>
  ELSE InsertScored(Head(s), SortScored(Tail(s), word), word)

\* get_close_matches that keeps the candidates in the order of possibilities
GetCloseMatchesUnsorted(word, possibilities) ==
  LET Close(x) == AtLeastCutoff(Ratio(x, word))
      result == SelectSeq(possibilities, Close)
  IN SubSeq(result, 1, Min(FuzzyN, Len(result)))

\* get_close_matches that returns every candidate that passes the cutoff
GetCloseMatchesUncapped(word, possibilities) ==
  LET Close(x) == AtLeastCutoff(Ratio(x, word))
  IN SortScored(SelectSeq(possibilities, Close), word)

\* difflib.get_close_matches(word, possibilities, n=5, cutoff=0.4)
GetCloseMatches(word, possibilities) ==
  LET Close(x) == /\ AtLeastCutoff(RealQuickRatio(x, word))
                  /\ AtLeastCutoff(QuickRatio(x, word))
                  /\ AtLeastCutoff(Ratio(x, word))
      result == SortScored(SelectSeq(possibilities, Close), word)
  IN SubSeq(result, 1, Min(FuzzyN, Len(result)))

----------------------------------------------------------------------------
(* ContentIndexer.extract_summary and ContentIndexer.extract_image *)

(* A text is a string over the period and the other characters: its length *)
(* and the 0-based positions of its periods.  fixed tells the literal of   *)
(* the except branch from the text of a document.                          *)

\* max_len
MaxLen == 800

Text(n, ds) == [len |-> n, dots |-> ds, fixed |-> FALSE]

\* "..."
Ellipsis == Text(3, {0, 1, 2})

\* the string returned when the file cannot be read
Placeholder == [len |-> 15, dots |-> {14}, fixed |-> TRUE]

\* text[:n]
Prefix(text, n) ==
  [text EXCEPT !.len = Min(n, text.len),
               !.dots = {d \in text.dots : d < n}]

\* a + b
Concat(a, b) ==
  [a EXCEPT !.len = a.len + b.len,
            !.dots = a.dots \cup {a.len + d : d \in b.dots}]

\* text.rfind('.', lo, hi)
RFind(text, lo, hi) ==
  LET found == {d \in text.dots : lo <= d /\ d < hi}
  IN IF found = {} THEN -1
     ELSE CHOOSE d \in found : \A e \in found : e <= d

\* the truncation that cuts before the last period
TruncateBeforePeriod(text) ==
  IF text.len > MaxLen
  THEN LET last_period == RFind(text, 0, MaxLen)
       IN IF last_period # -1 THEN Prefix(text, last_period)
          ELSE Concat(Prefix(text, MaxLen), Ellipsis)
  ELSE text

\* the truncation without the ellipsis
TruncateNoEllipsis(text) ==
  IF text.len > MaxLen
  THEN LET last_period == RFind(text, 0, MaxLen)
       IN IF last_period # -1 THEN Prefix(text, last_period + 1)
          ELSE Prefix(text, MaxLen)
  ELSE text

\* the "Truncate" part of extract_summary, over the flattened text
Truncate(text) ==
  IF text.len > MaxLen
  THEN LET last_period == RFind(text, 0, MaxLen)
       IN IF last_period # -1 THEN Prefix(text, last_period + 1)
          ELSE Concat(Prefix(text, MaxLen), Ellipsis)
  ELSE text

\* extract_summary without the except branch: the text whatever the file
ExtractSummaryUnguarded(e) == Truncate(e.text)

\* extract_summary(index_file), e.text being the flattened text of the file
ExtractSummary(e) == IF e.readable THEN Truncate(e.text) ELSE Placeholder

\* extract_image(index_file), e.img being the first img src of the file
ExtractImage(e) == IF e.readable THEN e.img ELSE "None"

\* image_src.startswith("http")
IsHttp(src) == src = "http://cdn/pic.png"

\* image_url of the record: None as <<>>, else the parts of the URL
ImageUrl(e, c) ==
  LET image_src == ExtractImage(e)
  IN IF image_src = "None" THEN <<>>
     ELSE IF ~IsHttp(image_src) THEN <<"HOST_BASE_URL", c, e.name, image_src>>
     ELSE <<image_src>>

----------------------------------------------------------------------------
(* ContentIndexer.reload_index *)

\* the categories taken in alphabetical order
CategoryOrderSorted == <<"Products", "QnA", "Selftest">>

\* the keys of the categories dict, in its iteration order
CategoryOrder == <<"QnA", "Selftest", "Products">>

Categories == {CategoryOrder[i] : i \in 1..Len(CategoryOrder)}

\* the record appended for the entry e of the folder of category c
MakeRecord(e, c) ==
  [title |-> e.name, category |-> c, summary |-> ExtractSummary(e),
   image_url |-> ImageUrl(e, c)]

\* a test that takes every subdirectory for a document
IsDocumentAnyDir(e) == e.isdir

\* os.path.isdir(post_dir) and os.path.exists(index_file)
IsDocument(e) == e.isdir /\ e.hasIndex

\* the records of one category folder, in os.listdir order
BuildCategory(t, c) ==
  IF ~t.cats[c].exists THEN <<>>
  ELSE LET docs == SelectSeq(t.cats[c].entries, IsDocument)
       IN [i \in 1..Len(docs) |-> MakeRecord(docs[i], c)]

RECURSIVE BuildFrom(_, _)
BuildFrom(t, ci) ==
  IF ci > Len(CategoryOrder) THEN <<>>
  ELSE BuildCategory(t, CategoryOrder[ci]) \o BuildFrom(t, ci + 1)

\* the index a complete reload_index leaves for the tree t
BuildIndex(t) == IF ~t.exists THEN <<>> ELSE BuildFrom(t, 1)

----------------------------------------------------------------------------
(* ContentIndexer.search and ContentIndexer.get_by_category *)

\* query.lower().strip()
Normalize(query) == Strip(Lower(query))

SeenTitles(results) == {results[i].title : i \in 1..Len(results)}

\* add_result that forgets seen_titles
AddResultNoDedup(results, item) == Append(results, item)

\* add_result(item)
AddResult(results, item) ==
  IF item.title \in SeenTitles(results) THEN results ELSE Append(results, item)

\* add_result over items, in order
RECURSIVE AddAll(_, _)
AddAll(results, items) ==
  IF items = <<>> THEN results
  ELSE AddAll(AddResult(results, Head(items)), Tail(items))

\* query == item['title'].lower()
IsExact(item, q) == q = Lower(item.title)

\* query in item['title'].lower()
IsSubstring(item, q) == Contains(Lower(item.title), q)

\* all(token in item['title'].lower() for token in tokens)
HasAllTokens(item, tokens) ==
  \A k \in 1..Len(tokens) : Contains(Lower(item.title), tokens[k])

\* the substring tier that forgets to lowercase the title
SubstringTierRaw(results, idx, q) ==
  LET Test(item) == Contains(item.title, q)
  IN AddAll(results, SelectSeq(idx, Test))

\* 2. Exact Substring Match
SubstringTier(results, idx, q) ==
  LET Test(item) == IsSubstring(item, q)
  IN AddAll(results, SelectSeq(idx, Test))

\* the token tier that runs only from three tokens on
TokenTierOverTwo(results, idx, q) ==
  LET tokens == Split(q)
      Test(item) == HasAllTokens(item, tokens)
  IN IF Len(tokens) > 2 THEN AddAll(results, SelectSeq(idx, Test))
     ELSE results

\* the token tier with any() in place of all()
TokenTierAny(results, idx, q) ==
  LET tokens == Split(q)
      Test(item) == \E k \in 1..Len(tokens) : Contains(Lower(item.title), tokens[k])
  IN IF Len(tokens) > 1 THEN AddAll(results, SelectSeq(idx, Test))
     ELSE results

\* 3. Token Match (AND logic)
TokenTier(results, idx, q) ==
  LET tokens == Split(q)
      Test(item) == HasAllTokens(item, tokens)
  IN IF Len(tokens) > 1 THEN AddAll(results, SelectSeq(idx, Test))
     ELSE results

\* for match in matches: for item in self.index: if item['title'] == match
RECURSIVE AddMatches(_, _, _)
AddMatches(results, idx, matches) ==
  IF matches = <<>> THEN results
  ELSE LET Test(item) == item.title = Head(matches)
       IN AddMatches(AddAll(results, SelectSeq(idx, Test)), idx, Tail(matches))

\* the fuzzy tier without the test of len(results)
FuzzyTierNoGuard(results, idx, q) ==
  LET titles == [i \in 1..Len(idx) |-> idx[i].title]
  IN AddMatches(results, idx, GetCloseMatches(q, titles))

\* 4. Fuzzy Match (difflib)
FuzzyTier(results, idx, q) ==
  IF Len(results) < FuzzyGuard
  THEN LET titles == [i \in 1..Len(idx) |-> idx[i].title]
       IN AddMatches(results, idx, GetCloseMatches(q, titles))
  ELSE results

\* search without the return inside the exact-match loop
SearchNoReturn(idx, query) ==
  IF query = <<>> THEN <<>>
  ELSE LET q == Normalize(query)
           Test(item) == IsExact(item, q)
           exact == AddAll(<<>>, SelectSeq(idx, Test))
       IN FuzzyTier(TokenTier(SubstringTier(exact, idx, q), idx, q), idx, q)

\* search whose exact-match loop runs to its end
SearchAllExact(idx, query) ==
  IF query = <<>> THEN <<>>
  ELSE LET q == Normalize(query)
           Test(item) == IsExact(item, q)
           exact == SelectSeq(idx, Test)
       IN IF exact # <<>> THEN AddAll(<<>>, exact)
          ELSE FuzzyTier(TokenTier(SubstringTier(<<>>, idx, q), idx, q), idx, q)

\* search(query) over the index idx
Search(idx, query) ==
  IF query = <<>> THEN <<>>
  ELSE LET q == Normalize(query)
           Test(item) == IsExact(item, q)
           exact == SelectSeq(idx, Test)
       IN IF exact # <<>> THEN AddResult(<<>>, Head(exact))
          ELSE FuzzyTier(TokenTier(SubstringTier(<<>>, idx, q), idx, q), idx, q)

\* get_by_category without the test of the category
GetByCategoryAll(idx, category) == idx

\* get_by_category(category) over the index idx
GetByCategory(idx, category) ==
  LET Test(item) == item.category = category
  IN SelectSeq(idx, Test)

----------------------------------------------------------------------------
(* The document tree on disk *)

\* a subdirectory that holds index.html
DocEntry(name) ==
  [name |-> name, isdir |-> TRUE, hasIndex |-> TRUE, readable |-> TRUE,
   text |-> Text(2, {1}), img |-> "pic.png"]

\* the root and the category folders exist and are empty
EmptyTree ==
  [exists |-> TRUE,
   cats |-> [c \in Categories |-> [exists |-> TRUE, entries |-> <<>>]]]

\* a fresh deployment: no root directory
NoRootTree ==
  [exists |-> FALSE,
   cats |-> [c \in Categories |-> [exists |-> FALSE, entries |-> <<>>]]]

RECURSIVE EntriesFrom(_, _)
EntriesFrom(t, ci) ==
  IF ci > Len(CategoryOrder) THEN 0
  ELSE Len(t.cats[CategoryOrder[ci]].entries) + EntriesFrom(t, ci + 1)

NumEntries(t) == EntriesFrom(t, 1)

EntryNames(t, c) ==
  {t.cats[c].entries[i].name : i \in 1..Len(t.cats[c].entries)}

InsertAt(s, i, e) == SubSeq(s, 1, i - 1) \o <<e>> \o SubSeq(s, i, Len(s))

RemoveAt(s, i) == SubSeq(s, 1, i - 1) \o SubSeq(s, i + 1, Len(s))

\* a document folder appears in an existing category folder; os.listdir
\* may enumerate it at any position, and names in one folder are distinct
TreesWithNewDoc(t, max) ==
  IF ~t.exists \/ NumEntries(t) >= max THEN {}
  ELSE { [t EXCEPT !.cats[c].entries = InsertAt(@, i, DocEntry(n))] :
           <<c, n, i>> \in
             { x \in Categories \X TitlePool \X (1..(max + 1)) :
                 /\ t.cats[x[1]].exists
                 /\ x[2] \notin EntryNames(t, x[1])
                 /\ x[3] <= Len(t.cats[x[1]].entries) + 1 } }

\* a document folder is deleted
TreesWithoutDoc(t) ==
  { [t EXCEPT !.cats[c].entries = RemoveAt(@, i)] :
      <<c, i>> \in
        { x \in Categories \X (1..NumEntries(t)) :
            x[2] <= Len(t.cats[x[1]].entries) } }

\* the root or a category folder is created or removed while the tree
\* holds no documents
TreesWithFolderChange(t) ==
  IF NumEntries(t) > 0 THEN {}
  ELSE IF ~t.exists THEN {[t EXCEPT !.exists = TRUE]}
  ELSE {[t EXCEPT !.cats[c].exists = ~@] : c \in Categories}
       \cup (IF \A c \in Categories : ~t.cats[c].exists
             THEN {[t EXCEPT !.exists = FALSE]} ELSE {})

\* the trees one change on disk away from t, with at most max entries
TreeChanges(t, max) ==
  TreesWithNewDoc(t, max) \cup TreesWithoutDoc(t) \cup TreesWithFolderChange(t)

----------------------------------------------------------------------------
(* State machine *)

\* the entries the loop over os.listdir(cat_path) visits for category c
ListDir(t, c) == IF t.cats[c].exists THEN t.cats[c].entries ELSE <<>>

NoCall == [op |-> "none", arg |-> <<>>, seen |-> <<>>, ret |-> <<>>]

Idle == [pc |-> "idle", ci |-> 0, ei |-> 0]

\* indexer = ContentIndexer(BASE_DIR): self.index = [] and reload_index()
Init ==
  /\ tree \in {EmptyTree, NoRootTree}
  /\ index = BuildIndex(tree)
  /\ prev = <<>>
  /\ rl = Idle
  /\ call = NoCall

\* reload_index() run to completion over the tree as it is on disk
Reload ==
  /\ rl = Idle
  /\ call = NoCall
  /\ \E t \in TreeChanges(tree, MaxDocs) \cup {tree} :
       /\ tree' = t
       /\ index' = BuildIndex(t)
  /\ prev' = <<>>
  /\ UNCHANGED <<rl, call>>

\* a search that takes the records it returns out of the index
DoSearchDraining ==
  /\ call = NoCall
  /\ \E query \in QueryPool :
       LET ret == Search(index, query)
       IN /\ call' = [op |-> "search", arg |-> query, seen |-> index,
                      ret |-> ret]
          /\ index' = SelectSeq(index,
                         LAMBDA r : \A i \in 1..Len(ret) : ret[i] # r)
  /\ UNCHANGED <<tree, prev, rl>>

\* a request handler calls indexer.search(query)
DoSearch ==
  /\ call = NoCall
  /\ \E query \in QueryPool :
       call' = [op |-> "search", arg |-> query, seen |-> index,
                ret |-> Search(index, query)]
  /\ UNCHANGED <<tree, index, prev, rl>>

\* a request handler calls indexer.get_by_category(category)
DoGetByCategory ==
  /\ call = NoCall
  /\ \E category \in Categories :
       call' = [op |-> "category", arg |-> category, seen |-> index,
                ret |-> GetByCategory(index, category)]
  /\ UNCHANGED <<tree, index, prev, rl>>

\* the handler returns its response
Return ==
  /\ call # NoCall
  /\ call' = NoCall
  /\ UNCHANGED <<tree, index, prev, rl>>

Next == Reload \/ DoSearch \/ DoGetByCategory \/ Return

Spec == Init /\ [][Next]_vars

----------------------------------------------------------------------------
(* reload_index() step by step, beside the request handlers *)

\* a reload that appends to the list of the earlier build
ReloadBeginNoReset ==
  /\ rl = Idle
  /\ call = NoCall
  /\ \E t \in TreeChanges(tree, MaxConcDocs) \cup {tree} :
       /\ tree' = t
       /\ rl' = IF t.exists THEN [pc |-> "scan", ci |-> 1, ei |-> 1] ELSE Idle
  /\ prev' = IF tree'.exists THEN index ELSE <<>>
  /\ index' = index
  /\ UNCHANGED call

\* self.index = [] and the check of the base directory
ReloadBegin ==
  /\ rl = Idle
  /\ call = NoCall
  /\ \E t \in TreeChanges(tree, MaxConcDocs) \cup {tree} :
       /\ tree' = t
       /\ rl' = IF t.exists THEN [pc |-> "scan", ci |-> 1, ei |-> 1] ELSE Idle
  /\ prev' = IF tree'.exists THEN index ELSE <<>>
  /\ index' = <<>>
  /\ UNCHANGED call

\* the loops without the test of cat_path: a missing category folder ends
\* the build where it stands
ReloadStepNoCatTest ==
  /\ rl.pc = "scan"
  /\ call = NoCall
  /\ IF rl.ci > Len(CategoryOrder)
     THEN rl' = Idle /\ prev' = <<>> /\ UNCHANGED index
     ELSE LET c == CategoryOrder[rl.ci]
              es == tree.cats[c].entries
          IN IF ~tree.cats[c].exists
             THEN rl' = Idle /\ prev' = <<>> /\ UNCHANGED index
             ELSE IF rl.ei > Len(es)
             THEN /\ rl' = [rl EXCEPT !.ci = @ + 1, !.ei = 1]
                  /\ UNCHANGED <<index, prev>>
             ELSE /\ rl' = [rl EXCEPT !.ei = @ + 1]
                  /\ UNCHANGED prev
                  /\ index' = IF IsDocument(es[rl.ei])
                              THEN Append(index, MakeRecord(es[rl.ei], c))
                              ELSE index
  /\ UNCHANGED <<tree, call>>

\* one turn of the loops over the categories and over os.listdir(cat_path)
ReloadStep ==
  /\ rl.pc = "scan"
  /\ call = NoCall
  /\ IF rl.ci > Len(CategoryOrder)
     THEN rl' = Idle /\ prev' = <<>> /\ UNCHANGED index
     ELSE LET c == CategoryOrder[rl.ci]
              es == ListDir(tree, c)
          IN IF rl.ei > Len(es)
             THEN /\ rl' = [rl EXCEPT !.ci = @ + 1, !.ei = 1]
                  /\ UNCHANGED <<index, prev>>
             ELSE /\ rl' = [rl EXCEPT !.ei = @ + 1]
                  /\ UNCHANGED prev
                  /\ index' = IF IsDocument(es[rl.ei])
                              THEN Append(index, MakeRecord(es[rl.ei], c))
                              ELSE index
  /\ UNCHANGED <<tree, call>>

\* indexer.search(query) in a handler that runs while reload_index may be
\* under way
ConcSearch ==
  /\ call = NoCall
  /\ \E query \in ConcQueryPool :
       call' = [op |-> "search", arg |-> query, seen |-> index,
                ret |-> Search(index, query)]
  /\ UNCHANGED <<tree, index, prev, rl>>

NextConc == ReloadBegin \/ ReloadStep \/ ConcSearch \/ DoGetByCategory \/ Return

SpecConc == Init /\ [][NextConc]_vars

----------------------------------------------------------------------------
(* reload_index() run again and again over one tree, whose category folders *)
(* hold documents of several kinds and entries that are no documents       *)

MaxBuildEntries == 3

BuildNames == {<<"A", "b">>, <<"a", "a", "b">>}

\* a document with a long text, 1000 characters, and an absolute image URL
LongDocEntry(name) ==
  [name |-> name, isdir |-> TRUE, hasIndex |-> TRUE, readable |-> TRUE,
   text |-> Text(1000, {750, 999}), img |-> "http://cdn/pic.png"]

\* a document whose index.html cannot be opened or decoded
BadDocEntry(name) ==
  [name |-> name, isdir |-> TRUE, hasIndex |-> TRUE, readable |-> FALSE,
   text |-> Text(2, {1}), img |-> "pic.png"]

\* a subdirectory without index.html
BareDirEntry(name) ==
  [name |-> name, isdir |-> TRUE, hasIndex |-> FALSE, readable |-> FALSE,
   text |-> Text(0, {}), img |-> "None"]

\* a plain file in the category folder
FileEntry(name) ==
  [name |-> name, isdir |-> FALSE, hasIndex |-> FALSE, readable |-> TRUE,
   text |-> Text(0, {}), img |-> "None"]

\* a document without image whose flattened text is text
TextDocEntry(name, text) ==
  [name |-> name, isdir |-> TRUE, hasIndex |-> TRUE, readable |-> TRUE,
   text |-> text, img |-> "None"]

BuildEntries ==
  UNION {{DocEntry(n), LongDocEntry(n), BadDocEntry(n), BareDirEntry(n),
          FileEntry(n)} : n \in BuildNames}

\* what os.listdir(cat_path) can return: distinct names, in any order
Listings ==
  {<<>>} \cup {<<e>> : e \in BuildEntries}
  \cup {<<x[1], x[2]>> :
          x \in {y \in BuildEntries \X BuildEntries : y[1].name # y[2].name}}

\* a category folder: missing, or present with a listing
CatStates ==
  {[exists |-> FALSE, entries |-> <<>>]}
  \cup {[exists |-> TRUE, entries |-> l] : l \in Listings}

BuildTrees ==
  {NoRootTree}
  \cup {t \in {[exists |-> TRUE, cats |-> g] : g \in [Categories -> CatStates]} :
          NumEntries(t) <= MaxBuildEntries}

\* lengths of flattened text around max_len, and places of periods
TextLens == {0, 1, MaxLen - 1, MaxLen, MaxLen + 1, MaxLen + 200}

DotPlaces == {0, MaxLen - 50, MaxLen - 1, MaxLen, MaxLen + 199}

TextPool ==
  {Text(n, ds) : <<n, ds>> \in
     {x \in TextLens \X SUBSET DotPlaces : \A d \in x[2] : d < x[1]}}

\* one document in the QnA folder, with a text of the pool
TextTrees ==
  {[EmptyTree EXCEPT !.cats["QnA"].entries =
      <<TextDocEntry(<<"A", "b">>, text)>>] : text \in TextPool}

InitBuild ==
  /\ tree \in BuildTrees \cup TextTrees
  /\ index = BuildIndex(tree)
  /\ prev = <<>>
  /\ rl = Idle
  /\ call = NoCall

\* a reload that appends to the list of the earlier build
ReloadAgainNoReset ==
  /\ rl = Idle
  /\ call = NoCall
  /\ rl' = IF tree.exists THEN [pc |-> "scan", ci |-> 1, ei |-> 1] ELSE Idle
  /\ prev' = IF tree.exists THEN index ELSE <<>>
  /\ index' = index
  /\ UNCHANGED <<tree, call>>

\* reload_index() is called again over the unchanged tree: self.index = []
\* and the check of the base directory
ReloadAgain ==
  /\ rl = Idle
  /\ call = NoCall
  /\ rl' = IF tree.exists THEN [pc |-> "scan", ci |-> 1, ei |-> 1] ELSE Idle
  /\ prev' = IF tree.exists THEN index ELSE <<>>
  /\ index' = <<>>
  /\ UNCHANGED <<tree, call>>

NextBuild == ReloadAgain \/ ReloadStep

SpecBuild == InitBuild /\ [][NextBuild]_vars

----------------------------------------------------------------------------
(* Vocabulary of the properties *)

IsSearch == call.op = "search"

\* the normalized query of the call
Q == Normalize(call.arg)

Titles(s) == {s[i].title : i \in 1..Len(s)}

HasExact == \E i \in 1..Len(call.seen) : IsExact(call.seen[i], Q)

\* a search that went past the empty-query test and the exact tier
PastExact == IsSearch /\ call.arg # <<>> /\ ~HasExact

MultiToken == Len(Split(Q)) > 1

RECURSIVE PickFrom(_, _, _)
PickFrom(s, keep, i) ==
  IF i > Len(s) THEN <<>>
  ELSE (IF i \in keep THEN <<s[i]>> ELSE <<>>) \o PickFrom(s, keep, i + 1)

\* s without the records whose title an earlier record of s has
FirstPerTitle(s) ==
  PickFrom(s, {i \in 1..Len(s) : \A j \in 1..(i - 1) : s[j].title # s[i].title}, 1)

\* the records of the index read whose lowercased title contains the query
SubMatches == PickFrom(call.seen, {i \in 1..Len(call.seen) : IsSubstring(call.seen[i], Q)}, 1)

\* the records of the index read whose lowercased title contains every token
TokMatches ==
  PickFrom(call.seen, {i \in 1..Len(call.seen) : HasAllTokens(call.seen[i], Split(Q))}, 1)

\* what the substring tier leaves
SubPart == FirstPerTitle(SubMatches)

\* what the substring and token-AND tiers leave together
BasePart ==
  IF MultiToken THEN FirstPerTitle(SubMatches \o TokMatches) ELSE SubPart

IsPrefix(p, s) == Len(p) <= Len(s) /\ SubSeq(s, 1, Len(p)) = p

\* the result after the first n records
After(n) == SubSeq(call.ret, n + 1, Len(call.ret))

\* position of the record r in the index read
Pos(r) == CHOOSE i \in 1..Len(call.seen) : call.seen[i] = r

----------------------------------------------------------------------------
(* Properties of search and get_by_category, under Spec *)

\* C1: search returns the empty sequence for every query that is empty or
\* consists only of whitespace, whatever the index holds.
C1_BlankQueryGivesNothing ==
  (IsSearch /\ Strip(call.arg) = <<>>) => call.ret = <<>>

\* C2: when some record's lowercased title equals the normalized query, the
\* result is not empty and holds only records whose lowercased title equals
\* the query, even if other titles contain the query.
C2_ExactShortCircuit ==
  (IsSearch /\ HasExact) =>
    /\ call.ret # <<>>
    /\ \A k \in 1..Len(call.ret) : IsExact(call.ret[k], Q)

\* an exact match was returned alone although another title contains the query
C2_Witness ==
  /\ IsSearch /\ HasExact
  /\ \E i \in 1..Len(call.seen) :
       IsSubstring(call.seen[i], Q) /\ ~IsExact(call.seen[i], Q)
  /\ Len(call.ret) = 1

\* C3 as stated: for a multi-token query with no exact title match, no record
\* whose lowercased title lacks one of the tokens is returned.
C3_OnlyAllTokenRecords ==
  (PastExact /\ MultiToken) =>
    \A k \in 1..Len(call.ret) : HasAllTokens(call.ret[k], Split(Q))

\* C3 amended: for a multi-token query with no exact title match, a record
\* that lacks a token is in the result only as a fuzzy candidate: its title's
\* similarity to the query is at least the cutoff, fewer than three records
\* of the result hold every token, and none of those comes after it.
C3_TokenLackingOnlyFuzzy ==
  (PastExact /\ MultiToken) =>
    \A k \in 1..Len(call.ret) :
      ~HasAllTokens(call.ret[k], Split(Q)) =>
        /\ AtLeastCutoff(Ratio(call.ret[k].title, Q))
        /\ Cardinality({j \in 1..Len(call.ret) :
                          HasAllTokens(call.ret[j], Split(Q))}) < FuzzyGuard
        /\ \A j \in (k + 1)..Len(call.ret) :
             ~HasAllTokens(call.ret[j], Split(Q))

\* a multi-token search returned a record with every token and, after it, one
\* that lacks a token
C3_Witness ==
  /\ PastExact /\ MultiToken
  /\ \E j, k \in 1..Len(call.ret) :
       /\ j < k
       /\ HasAllTokens(call.ret[j], Split(Q))
       /\ ~HasAllTokens(call.ret[k], Split(Q))

\* C4: for a non-empty query with no exact title match, the records whose
\* lowercased title contains the normalized query, one per distinct title and
\* in index order, are the beginning of the result, so that every such record's
\* title is in the result.
C4_SubstringTierFirst ==
  PastExact =>
    /\ IsPrefix(SubPart, call.ret)
    /\ \A i \in 1..Len(call.seen) :
         IsSubstring(call.seen[i], Q) => call.seen[i].title \in Titles(call.ret)

\* the substring tier found two titles, one of them only by lowercasing it and
\* one of them in two categories
C4_Witness ==
  /\ PastExact
  /\ Len(SubPart) >= 2
  /\ Len(SubMatches) > Len(SubPart)
  /\ \E i \in 1..Len(SubPart) : ~Contains(SubPart[i].title, Q)

\* the substring tier found one title and the fuzzy tier added to it
C4_WitnessFuzzy ==
  /\ PastExact
  /\ Len(SubPart) >= 1
  /\ Len(call.ret) > Len(SubPart)

\* C5: for a query of more than one token with no exact title match, the
\* records whose lowercased title contains every token are in the result, one
\* per title and in index order, right after the substring-tier records; for
\* a query of at most one token nothing stands between the substring-tier
\* records and the fuzzy candidates, none of which contains the query.
C5_TokenTierSecond ==
  PastExact =>
    /\ IsPrefix(BasePart, call.ret)
    /\ IsPrefix(SubPart, BasePart)
    /\ MultiToken =>
         \A i \in 1..Len(call.seen) :
           HasAllTokens(call.seen[i], Split(Q)) =>
             call.seen[i].title \in Titles(BasePart)
    /\ ~MultiToken =>
         \A k \in (Len(SubPart) + 1)..Len(call.ret) :
           /\ ~IsSubstring(call.ret[k], Q)
           /\ AtLeastCutoff(Ratio(call.ret[k].title, Q))

\* a multi-token search returned a substring match and after it a record
\* that holds the tokens in another order and stands earlier in the index
C5_Witness ==
  /\ PastExact /\ MultiToken
  /\ Len(SubPart) >= 1
  /\ Len(BasePart) > Len(SubPart)
  /\ Pos(BasePart[Len(BasePart)]) < Pos(BasePart[1])

\* a single-token search returned substring matches and then fuzzy candidates
C5_WitnessSingle ==
  /\ PastExact /\ ~MultiToken
  /\ Len(SubPart) >= 1
  /\ Len(call.ret) > Len(SubPart)

\* C6: if the substring and token-AND tiers left three or more records, the
\* result is exactly those records; the result holds anything else only when
\* they left fewer than three.
C6_FuzzyGuard ==
  PastExact =>
    /\ Len(BasePart) >= FuzzyGuard => call.ret = BasePart
    /\ call.ret # BasePart => Len(BasePart) < FuzzyGuard

\* the two tiers left three records and the index holds a further title that
\* is similar enough to the query
C6_Witness ==
  /\ PastExact
  /\ Len(BasePart) >= FuzzyGuard
  /\ \E i \in 1..Len(call.seen) :
       /\ call.seen[i].title \notin Titles(BasePart)
       /\ AtLeastCutoff(Ratio(call.seen[i].title, Q))

\* C7: no two records of a search result share a title, and each record of
\* the result is the first record of the index with its title.
C7_SearchDedup ==
  IsSearch =>
    /\ \A j, k \in 1..Len(call.ret) : j # k => call.ret[j].title # call.ret[k].title
    /\ \A k \in 1..Len(call.ret) :
         \E i \in 1..Len(call.seen) :
           /\ call.seen[i] = call.ret[k]
           /\ \A h \in 1..(i - 1) : call.seen[h].title # call.ret[k].title

\* a search returned a title that two category folders hold
C7_Witness ==
  /\ IsSearch
  /\ \E k \in 1..Len(call.ret) :
       Cardinality({i \in 1..Len(call.seen) :
                      call.seen[i].title = call.ret[k].title}) >= 2

C10_CategoryFilter ==
  call.op = "category" =>
    /\ \A i \in 1..Len(call.seen) :
         call.seen[i].category = call.arg
           <=> \E k \in 1..Len(call.ret) : call.ret[k] = call.seen[i]
    /\ \A k \in 1..Len(call.ret) :
         \E i \in 1..Len(call.seen) : call.seen[i] = call.ret[k]
    /\ \A j, k \in 1..Len(call.ret) :
         j < k => /\ Pos(call.ret[j]) < Pos(call.ret[k])
                  /\ call.ret[j].title # call.ret[k].title

\* a category of two records was returned from an index that holds one of
\* their titles in another category too
C10_Witness ==
  /\ call.op = "category"
  /\ Len(call.ret) >= 2
  /\ \E i \in 1..Len(call.seen) :
       /\ call.seen[i].category # call.arg
       /\ call.seen[i].title \in Titles(call.ret)

----------------------------------------------------------------------------
(* Properties of the step-wise reload, under SpecConc *)

\* a reload_index that ran to its end left the index of the tree it read
ReloadBuildsIndex == rl = Idle => index = BuildIndex(tree)

\* C9: a query that runs beside reload_index reads either the complete
\* previous index or the complete new one.
C9_ReadersSeeCompleteIndex ==
  call.op # "none" =>
    IF rl = Idle THEN call.seen = BuildIndex(tree)
    ELSE call.seen = prev \/ call.seen = BuildIndex(tree)

\* C18: search and get_by_category leave the index unchanged, the same
\* records in the same order with the same field values, for every query
\* and category: no step that starts or ends a call changes the index.
C18_QueriesReadOnly == [][call' # call => index' = index]_vars

\* a search that returned several records of an index of three or more, the
\* index being after the call what the call saw
C18_Witness ==
  /\ IsSearch
  /\ Len(call.ret) >= 2
  /\ Len(index) >= 3
  /\ index = call.seen

----------------------------------------------------------------------------
(* Vocabulary of the build properties *)

\* the (category, folder name) pairs of the documents on disk: the immediate
\* subdirectories of an existing category folder that hold index.html
DocKeys(t) ==
  IF ~t.exists THEN {}
  ELSE {<<c, t.cats[c].entries[i].name>> :
          <<c, i>> \in {x \in Categories \X (1..NumEntries(t)) :
                          /\ t.cats[x[1]].exists
                          /\ x[2] <= Len(t.cats[x[1]].entries)
                          /\ t.cats[x[1]].entries[x[2]].isdir
                          /\ t.cats[x[1]].entries[x[2]].hasIndex}}

RecordKeys(s) == {<<s[i].category, s[i].title>> : i \in 1..Len(s)}

\* the loops of reload_index are over and it is about to return
LoopsDone == rl.pc = "scan" /\ rl.ci > Len(CategoryOrder)

\* reload_index is not running, or has just finished its loops
ReloadComplete == rl = Idle \/ LoopsDone

\* C11: after reload_index completes the index holds exactly the records of
\* the documents on disk: no record whose document is gone survives, every
\* document has a record, and no record appears twice.
C11_FullReplacement ==
  ReloadComplete =>
    /\ RecordKeys(index) = DocKeys(tree)
    /\ Len(index) = Cardinality(DocKeys(tree))

\* a repeated reload has finished its loops: one document of the earlier
\* build is gone from disk and from the index, another is still in both
C11_Witness ==
  /\ LoopsDone
  /\ \E k \in RecordKeys(prev) : k \notin RecordKeys(index)
  /\ \E k \in RecordKeys(prev) : k \in RecordKeys(index)

Triples(s) == {<<s[i].title, s[i].category, s[i].summary>> : i \in 1..Len(s)}

\* C12: building the index twice over an unchanged tree yields the same set
\* of (title, category, summary) triples and the same number of records:
\* when a repeated build has finished its loops, its list and the list of
\* the build before it agree in both.
C12_BuildIdempotent ==
  LoopsDone => /\ Triples(index) = Triples(prev)
               /\ Len(index) = Len(prev)

\* a second build over a tree with two documents, one of them unreadable,
\* has finished its loops
C12_Witness ==
  /\ LoopsDone
  /\ Len(prev) = 2
  /\ Len(index) = 2
  /\ \E i \in 1..2 : index[i].summary = Placeholder
  /\ \E i \in 1..2 : index[i].summary # Placeholder

\* the entries of category folder c on disk
OnDisk(c) ==
  IF tree.exists /\ tree.cats[c].exists THEN tree.cats[c].entries ELSE <<>>

\* the places in s of the records of title n and category c
RecordsOf(s, n, c) ==
  {j \in 1..Len(s) : s[j].title = n /\ s[j].category = c}

\* C13: for each of the three categories the build produces exactly one
\* record for each immediate subdirectory of the category folder that holds
\* index.html, with the folder's name as title and that category as
\* category; plain files and subdirectories without index.html produce no
\* record, and no record comes from anywhere else.
C13_OneRecordPerDocumentFolder ==
  ReloadComplete =>
    /\ \A c \in Categories : \A i \in 1..Len(OnDisk(c)) :
         LET e == OnDisk(c)[i]
         IN Cardinality(RecordsOf(index, e.name, c)) =
              IF e.isdir /\ e.hasIndex THEN 1 ELSE 0
    /\ \A j \in 1..Len(index) :
         /\ index[j].category \in Categories
         /\ \E i \in 1..Len(OnDisk(index[j].category)) :
              OnDisk(index[j].category)[i].name = index[j].title

\* a finished build over a tree that holds a document folder, a plain file
\* and a subdirectory without index.html: one record
C13_Witness ==
  /\ LoopsDone
  /\ Len(index) = 1
  /\ \E c \in Categories : \E i \in 1..Len(OnDisk(c)) :
       ~OnDisk(c)[i].isdir
  /\ \E c \in Categories : \E i \in 1..Len(OnDisk(c)) :
       OnDisk(c)[i].isdir /\ ~OnDisk(c)[i].hasIndex

\* every document folder of category c on disk has a record
AllIndexed(c) ==
  \A i \in 1..Len(OnDisk(c)) :
    LET e == OnDisk(c)[i]
    IN e.isdir /\ e.hasIndex => RecordsOf(index, e.name, c) # {}

\* C14: if the root directory does not exist the build ends with an empty
\* index; if a category folder is missing, that category contributes no
\* record and the documents of the other categories are all indexed.
C14_MissingDirectoriesNonFatal ==
  ReloadComplete =>
    /\ ~tree.exists => index = <<>>
    /\ \A c \in Categories :
         tree.exists /\ ~tree.cats[c].exists =>
           /\ \A j \in 1..Len(index) : index[j].category # c
           /\ \A d \in Categories \ {c} : AllIndexed(d)

\* a finished build over a tree whose first category folder is missing
\* while the two others hold a document each
C14_Witness ==
  /\ LoopsDone
  /\ tree.exists
  /\ ~tree.cats["QnA"].exists
  /\ \E j \in 1..Len(index) : index[j].category = "Selftest"
  /\ \E j \in 1..Len(index) : index[j].category = "Products"

\* the record of the document folder n of category c
RecordOf(n, c) == index[CHOOSE j \in RecordsOf(index, n, c) : TRUE]

\* the summary a readable document of flattened text text gets
SummaryOf(text) ==
  IF text.len <= MaxLen THEN text
  ELSE LET before == {d \in text.dots : d < MaxLen}
       IN IF before = {}
          THEN Text(MaxLen + 3, {MaxLen, MaxLen + 1, MaxLen + 2})
          ELSE LET p == CHOOSE d \in before : \A o \in before : o <= d
               IN Text(p + 1, {d \in text.dots : d <= p})

\* the image URL a readable document e of category c gets
ImageOf(e, c) ==
  IF e.img = "None" THEN <<>>
  ELSE IF e.img = "http://cdn/pic.png" THEN <<e.img>>
  ELSE <<"HOST_BASE_URL", c, e.name, e.img>>

\* C15: a document that cannot be read still yields a record, whose summary
\* is the placeholder string and whose image URL is None; every other
\* document has the record it has whatever the unreadable one holds, and
\* the build runs to its end.
C15_BadDocumentIsolated ==
  ReloadComplete =>
    \A c \in Categories : \A i \in 1..Len(OnDisk(c)) :
      LET e == OnDisk(c)[i]
      IN e.isdir /\ e.hasIndex =>
           /\ Cardinality(RecordsOf(index, e.name, c)) = 1
           /\ RecordOf(e.name, c).summary =
                IF e.readable THEN SummaryOf(e.text) ELSE Placeholder
           /\ RecordOf(e.name, c).image_url =
                IF e.readable THEN ImageOf(e, c) ELSE <<>>

\* a finished build over a tree in which the unreadable document is listed
\* before a readable one of the same category: two records
C15_Witness ==
  /\ LoopsDone
  /\ \E c \in Categories :
       /\ Len(OnDisk(c)) = 2
       /\ OnDisk(c)[1].hasIndex /\ ~OnDisk(c)[1].readable
       /\ OnDisk(c)[2].hasIndex /\ OnDisk(c)[2].readable
       /\ RecordOf(OnDisk(c)[1].name, c).summary = Placeholder
       /\ RecordOf(OnDisk(c)[2].name, c).summary # Placeholder
  /\ Len(index) >= 2

\* the periods of a text among its first max_len characters
PeriodsInHead(text) == {d \in text.dots : d < MaxLen}

\* the readable document folders on disk, as (category, entry) pairs
ReadableDocs ==
  {<<c, OnDisk(c)[i]>> :
     <<c, i>> \in {x \in Categories \X (1..MaxBuildEntries) :
                     /\ x[2] <= Len(OnDisk(x[1]))
                     /\ OnDisk(x[1])[x[2]].isdir
                     /\ OnDisk(x[1])[x[2]].hasIndex
                     /\ OnDisk(x[1])[x[2]].readable}}

C17_HardTruncationAndBound ==
  ReloadComplete =>
    \A x \in ReadableDocs :
      LET text == x[2].text
          summary == RecordOf(x[2].name, x[1]).summary
      IN /\ text.len > MaxLen /\ PeriodsInHead(text) = {} =>
              /\ summary.len = MaxLen + Ellipsis.len
              /\ summary.dots = {MaxLen + d : d \in Ellipsis.dots}
         /\ text.len <= MaxLen => summary = text
         /\ summary.len <= MaxLen + Ellipsis.len

\* a document of 801 characters whose only period is its last character,
\* indexed with a summary of 803 characters
C17_Witness ==
  /\ ReloadComplete
  /\ \E x \in ReadableDocs :
       /\ x[2].text.len = MaxLen + 1
       /\ x[2].text.dots = {MaxLen}
       /\ RecordOf(x[2].name, x[1]).summary.len = 803

----------------------------------------------------------------------------
(* search over larger indexes: many short titles, some of them differing   *)
(* only in letter case or shared by two categories                          *)

MaxCapDocs == 8

\* the document folders the QnA folder can hold, as os.listdir orders them
CapTitles ==
  << <<"b", " ", "a">>, <<"b", "a">>, <<"a", " ", "a">>, <<"a">>,
     <<"a", "a">>, <<"b">>, <<"b", " ", "b">>, <<"b", "b">>, <<"a", "b">> >>

\* the document folders the Selftest folder can hold
CapSideTitles == << <<"A", "b">>, <<"a", "b">>, <<"a">> >>

\* the listing of the folders of names at the places keep
DocListing(names, keep) ==
  LET picked == PickFrom(names, keep, 1)
  IN [i \in 1..Len(picked) |-> DocEntry(picked[i])]

CapTrees ==
  {[EmptyTree EXCEPT
      !.cats["QnA"].entries = DocListing(CapTitles, x[1]),
      !.cats["Selftest"].entries = DocListing(CapSideTitles, x[2])] :
     x \in {y \in (SUBSET (1..Len(CapTitles)))
                    \X (SUBSET (1..Len(CapSideTitles))) :
              Cardinality(y[1]) + Cardinality(y[2]) <= MaxCapDocs}}

InitCap ==
  /\ tree \in CapTrees
  /\ index = BuildIndex(tree)
  /\ prev = <<>>
  /\ rl = Idle
  /\ call = NoCall

NextCap == DoSearch \/ Return

SpecCap == InitCap /\ [][NextCap]_vars

\* what the fuzzy tier appended, when it ran
FuzzyPart == After(Len(BasePart))

\* the places of the index read whose (similarity, title) pair is above that
\* of title n
RankedAbove(n) ==
  {i \in 1..Len(call.seen) :
     \/ RatioLess(Ratio(n, Q), Ratio(call.seen[i].title, Q))
     \/ /\ ~RatioLess(Ratio(call.seen[i].title, Q), Ratio(n, Q))
        /\ StrLess(n, call.seen[i].title)}

\* C19: when the substring and token-AND tiers leave fewer than three
\* records, the fuzzy tier appends at most 5 records; each has a title
\* whose similarity to the normalized query is at least 0.4 and which is
\* among the 5 best titles of the index; the whole result then has at most
\* 2 + 5 = 7 records.
C19_FuzzyCap ==
  (PastExact /\ Len(BasePart) < FuzzyGuard) =>
    /\ IsPrefix(BasePart, call.ret)
    /\ Len(FuzzyPart) <= FuzzyN
    /\ \A k \in 1..Len(FuzzyPart) :
         /\ AtLeastCutoff(Ratio(FuzzyPart[k].title, Q))
         /\ Cardinality(RankedAbove(FuzzyPart[k].title)) < FuzzyN
    /\ Len(call.ret) <= (FuzzyGuard - 1) + FuzzyN

\* two records from the token-AND tier and five from the fuzzy tier, while
\* a further title of the index passes the cutoff and is left out
C19_Witness ==
  /\ PastExact
  /\ Len(BasePart) = 2
  /\ Len(call.ret) = 7
  /\ \E i \in 1..Len(call.seen) :
       /\ call.seen[i].title \notin Titles(call.ret)
       /\ AtLeastCutoff(Ratio(call.seen[i].title, Q))

\* the places of the index read whose lowercased title equals the query
ExactPlaces == {i \in 1..Len(call.seen) : IsExact(call.seen[i], Q)}

\* a search for which more than one record is an exact match
SeveralExact == IsSearch /\ Cardinality(ExactPlaces) > 1

\* C20 as stated: when more than one record has a lowercased title equal to
\* the normalized query, search returns all of those records, one per title.
C20_AllExactMatchesReturned ==
  SeveralExact =>
    call.ret = FirstPerTitle(PickFrom(call.seen, ExactPlaces, 1))

\* C20 amended: when more than one record has a lowercased title equal to
\* the normalized query, search returns one record only, the first of them
\* in index order.
C20_FirstExactMatchOnly ==
  SeveralExact =>
    call.ret = <<call.seen[CHOOSE i \in ExactPlaces :
                             \A j \in ExactPlaces : i <= j]>>

\* two records whose titles differ in letter case only are exact matches of
\* the query, and one record was returned
C20_Witness ==
  /\ SeveralExact
  /\ \E i, j \in ExactPlaces : call.seen[i].title # call.seen[j].title
  /\ Len(call.ret) = 1

\* the place of a category in the order QnA, Selftest, Products
CategoryRank == [c \in Categories |->
                   IF c = "QnA" THEN 1 ELSE IF c = "Selftest" THEN 2 ELSE 3]

\* the place of the folder n in the listing of category folder c
ListedAt(n, c) == CHOOSE i \in 1..Len(OnDisk(c)) : OnDisk(c)[i].name = n

\* C25: after any build the index is grouped by category in the order QnA,
\* Selftest, Products, and within a category the records are in the order
\* in which the directory listing returned their folders.
C25_GroupedByCategory ==
  ReloadComplete =>
    \A i, j \in 1..Len(index) :
      i < j =>
        /\ CategoryRank[index[i].category] <= CategoryRank[index[j].category]
        /\ index[i].category = index[j].category =>
             ListedAt(index[i].title, index[i].category)
               < ListedAt(index[j].title, index[j].category)

\* a finished build with records of two categories, one of which lists its
\* two folders against alphabetical order
C25_Witness ==
  /\ LoopsDone
  /\ Len(index) = 3
  /\ \E i \in 1..2 :
       /\ index[i].category = index[i + 1].category
       /\ StrLess(index[i + 1].title, index[i].title)
  /\ \E i \in 1..2 : index[i].category # index[i + 1].category

----------------------------------------------------------------------------
(* Response helpers: truncate, list_card, carousel_basic_card *)

\* items[:5] of list_card
ListMax == 5

\* truncate(item['title'], 35)
ItemTitleLimit == 35

\* truncate(item.get('category', ''), 40)
DescriptionLimit == 40

\* truncate(title, 30)
HeaderLimit == 30

\* items[:10] of carousel_basic_card
CarouselMax == 10

\* len(summary) > 80 and summary[:80]
DescriptionCut == 80

\* s[:n] as Python slices: a negative n counts from the end
SliceTo(s, n) ==
  IF n >= 0 THEN SubSeq(s, 1, Min(n, Len(s)))
  ELSE SubSeq(s, 1, IF Len(s) + n > 0 THEN Len(s) + n ELSE 0)

\* "..." as characters
Dots == <<".", ".", ".">>

\* truncate(text, limit)
truncate(text, limit) ==
  IF Len(text) > limit THEN SliceTo(text, limit - 3) \o Dots ELSE text

\* the category names as characters
CategoryText ==
  [c \in Categories |->
     IF c = "QnA" THEN <<"Q", "n", "A">>
     ELSE IF c = "Selftest" THEN <<"S", "e", "l", "f", "t", "e", "s", "t">>
     ELSE <<"P", "r", "o", "d", "u", "c", "t", "s">>]

\* " 더 보여줘", one element per character
MoreSuffix == <<" ", "deo", " ", "bo", "yeo", "jwo">>

\* list_card(title, items): the header, the items and the messageText of
\* the "more" button, <<>> when the card has no such button
list_card(title, items) ==
  [header |-> truncate(title, HeaderLimit),
   items |-> [i \in 1..Min(ListMax, Len(items)) |->
                [title |-> truncate(items[i].title, ItemTitleLimit),
                 description |->
                   truncate(CategoryText[items[i].category], DescriptionLimit),
                 messageText |-> items[i].title]],
   more |-> IF Len(items) > ListMax THEN title \o MoreSuffix ELSE <<>>]

\* the description of a basic card: the summary cut to 80 characters, or
\* the category when the summary is empty
CardDescription(item) ==
  LET summary == IF item.summary.len > DescriptionCut
                 THEN Concat(Prefix(item.summary, DescriptionCut), Ellipsis)
                 ELSE item.summary
  IN IF summary.len > 0 THEN <<summary>>
     ELSE <<CategoryText[item.category]>>

\* carousel_basic_card(items): the cards of the carousel
carousel_basic_card(items) ==
  [i \in 1..Min(CarouselMax, Len(items)) |->
     [title |-> truncate(items[i].title, ItemTitleLimit),
      description |-> CardDescription(items[i]),
      imageUrl |-> IF items[i].image_url = <<>>
                   THEN <<"HOST_BASE_URL", "images", "default_thumbnail.jpg">>
                   ELSE items[i].image_url]]

----------------------------------------------------------------------------
(* The response helpers applied to texts and item lists of many lengths *)

MaxCardItems == 11

\* lengths of titles around the limits of the cards
LengthPool == {0, 1, 2, 3, 4, 29, 30, 31, 34, 35, 36, 41}

\* the limits truncate can be called with: those of the cards, and small ones
LimitPool ==
  {0, 1, 2, 3, 4, HeaderLimit, ItemTitleLimit, DescriptionLimit}

\* a text of n characters
Chars(n) == [i \in 1..n |-> "a"]

\* n records whose titles have l characters
CardItems(n, l) ==
  [i \in 1..n |-> MakeRecord(DocEntry(Chars(l)), "QnA")]

InitCards ==
  /\ tree = EmptyTree
  /\ index = BuildIndex(tree)
  /\ prev = <<>>
  /\ rl = Idle
  /\ call = NoCall

\* truncate(text, limit)
DoTruncate ==
  /\ call = NoCall
  /\ \E n \in LengthPool, limit \in LimitPool :
       call' = [op |-> "truncate", arg |-> <<Chars(n), limit>>,
                seen |-> index, ret |-> truncate(Chars(n), limit)]
  /\ UNCHANGED <<tree, index, prev, rl>>

\* list_card(title, items)
DoListCard ==
  /\ call = NoCall
  /\ \E t \in LengthPool, n \in 0..MaxCardItems, l \in LengthPool :
       call' = [op |-> "list_card", arg |-> <<Chars(t), CardItems(n, l)>>,
                seen |-> index,
                ret |-> <<list_card(Chars(t), CardItems(n, l))>>]
  /\ UNCHANGED <<tree, index, prev, rl>>

\* carousel_basic_card(items)
DoCarousel ==
  /\ call = NoCall
  /\ \E n \in 0..MaxCardItems, l \in LengthPool :
       call' = [op |-> "carousel_basic_card", arg |-> <<CardItems(n, l)>>,
                seen |-> index,
                ret |-> carousel_basic_card(CardItems(n, l))]
  /\ UNCHANGED <<tree, index, prev, rl>>

NextCards == DoTruncate \/ DoListCard \/ DoCarousel \/ Return

SpecCards == InitCards /\ [][NextCards]_vars

\* C22: list_card emits at most 5 items, each with a title of at most 35
\* characters, under a header of at most 30 characters; carousel_basic_card
\* emits at most 10 cards; truncate(text, limit) returns at most limit
\* characters, and text itself when text has at most limit characters.
C22_PresentationLimits ==
  /\ call.op = "list_card" =>
       /\ Len(call.ret[1].items) <= 5
       /\ \A i \in 1..Len(call.ret[1].items) :
            Len(call.ret[1].items[i].title) <= 35
       /\ Len(call.ret[1].header) <= 30
  /\ call.op = "carousel_basic_card" => Len(call.ret) <= 10
  /\ call.op = "truncate" =>
       /\ Len(call.ret) <= call.arg[2]
       /\ Len(call.arg[1]) <= call.arg[2] => call.ret = call.arg[1]

\* the limits of the cards alone: at most 5 items with titles of at most
\* 35 characters, a header of at most 30, at most 10 cards in a carousel
CardLimitsHold ==
  /\ call.op = "list_card" =>
       /\ Len(call.ret[1].items) <= ListMax
       /\ \A i \in 1..Len(call.ret[1].items) :
            Len(call.ret[1].items[i].title) <= ItemTitleLimit
       /\ Len(call.ret[1].header) <= HeaderLimit
  /\ call.op = "carousel_basic_card" => Len(call.ret) <= CarouselMax
  /\ (call.op = "truncate" /\ call.arg[2] >= Len(Dots)) =>
       /\ Len(call.ret) <= call.arg[2]
       /\ Len(call.arg[1]) <= call.arg[2] => call.ret = call.arg[1]

----------------------------------------------------------------------------
(* The fallback endpoint.  An utterance is a sequence of characters; a      *)
(* Hangul syllable is one character, written by its romanization, so that  *)
(* the title of the self-test list is <<"ja", "ga", " ", "jin", "dan">>.    *)
(* Line 758 of the source repeats the "]," that closes the outputs list of *)
(* the last response; the handler is taken without the repeated line.      *)

\* the keywords of "0. Handle Home/Start Keywords"
HomeKeywords ==
  {<<"si", "jag">>, <<"hom", "eu", "ro">>, <<"cheo", "eum", "eu", "ro">>,
   <<"s", "t", "a", "r", "t">>, <<"h", "o", "m", "e">>}

\* the two keywords of "0-1. Handle Chatbot Usage"
UsageKeywords ==
  {<<"chaes", "bos", " ", "sa", "yong", "beob">>, <<"sa", "yong", "beob">>}

\* the keyword of "0-3. Handle TV Recommendation"
TvRecommendKeyword == <<"na", "eh", "ge", " ", "maj", "neun", " ", "T", "V">>

\* keywords_ott
keywords_ott ==
  {<<"nes", "peul">>, <<"yu", "tyu", "beu">>, <<"yeong", "hwa">>,
   <<"deu", "ra", "ma">>, <<"o", "t", "t">>, <<"yeong", "sang">>,
   <<"di", "jeu", "ni">>, <<"ti", "bing">>, <<"we", "ih", "beu">>}

\* keywords_game
keywords_game ==
  {<<"ge", "im">>, <<"peul", "seu">>, <<"x", "b", "o", "x">>,
   <<"nin", "ten", "do">>, <<"seu", "wi", "chi">>, <<"rol">>,
   <<"bae", "geu">>, <<"di", "ah", "beul", "ro">>, <<"ma", "bi", "no", "gi">>,
   <<"oh", "beo", "wo", "chi">>, <<"seu", "tim">>, <<"p", "s", "5">>,
   <<"p", "s", "4">>}

\* keywords_broadcast
keywords_broadcast ==
  {<<"bang", "song">>, <<"hyo", "do">>, <<"nyu", "seu">>, <<"ah", "chim">>,
   <<"bu", "mo", "nim">>, <<"an", "bang">>, <<"geo", "sil">>}

\* keywords_any
keywords_any ==
  {<<"sang", "gwan">>, <<"ah", "mu", "geo", "na">>, <<"mo", "reum">>,
   <<"geu", "nyang">>, <<"chu", "cheon">>, <<"mo", "reu", "gess", "eo">>,
   <<"gyang">>, <<"ti", "bi">>, <<"t", "v">>}

\* "tv", looked for in utterance.lower()
TvLower == <<"t", "v">>

\* the Hangul spelling of TV, looked for in utterance
TvHangul == <<"ti", "bi">>

\* the keyword of "0-4. Handle Pagination"
MoreKeyword == <<"deo", " ", "bo", "yeo", "jwo">>

\* the first text that utterance.replace removes
SearchMoreSuffix == <<" ", "geom", "saeg", " ", "gyeol", "gwa", " ", "deo", " ", "bo", "yeo", "jwo">>

\* the names by which a "more" request means the QnA list
QnaNames ==
  {<<"ja", "ju", " ", "mud", "neun", " ", "jil", "mun">>, <<"Q", "n", "A">>}

\* the names by which a "more" request means the Selftest list
SelftestNames ==
  {<<"ja", "ga", " ", "jin", "dan">>,
   <<"S", "e", "l", "f", "t", "e", "s", "t">>}

\* the keywords of the Selftest list
SelftestKeywords ==
  {<<"ja", "ga", " ", "jin", "dan">>,
   <<"S", "e", "l", "f", "t", "e", "s", "t">>, <<"jin", "dan">>,
   <<"te", "seu", "teu">>}

\* the keywords of the QnA list
QnaKeywords ==
  {<<"Q", "n", "A">>, <<"ja", "ju", " ", "mud", "neun", " ", "jil", "mun">>,
   <<"jil", "mun">>, <<"jeon", "che", " ", "mog", "rog">>,
   <<"ri", "seu", "teu">>}

\* the keyword of the call-centre card
AgentKeyword == <<"sang", "dam", "won">>

\* the keyword of the homepage card
HomepageKeyword == <<"hom", "pe", "ih", "ji">>

\* the keywords of the delivery card
DeliveryKeywords ==
  {<<"bae", "song", "jo", "hoe">>, <<"bae", "song", " ", "jo", "hoe">>}

\* the utterance that is the delivery request by itself
DeliveryWord == <<"bae", "song">>

\* the keywords of the company card
CompanyKeywords ==
  {<<"hoe", "sa">>, <<"so", "gae">>}

\* the keywords of "3. Handle Product Keywords"
ProductKeywords ==
  {<<"sang", "pum">>, <<"je", "pum">>, <<"mo", "del">>}

\* the title of the Selftest list card
SelftestTitle == <<"ja", "ga", " ", "jin", "dan">>

\* the title of the QnA list card
QnaTitle == <<"ja", "ju", " ", "mud", "neun", " ", "jil", "mun">>

\* the title of the Products list card
ProductsTitle == <<"ih", "seu", "teu", "ra", " ", "je", "pum">>

\* the end of the title of a search list card
SearchTitleSuffix == <<" ", "geom", "saeg", " ", "gyeol", "gwa">>

\* the end of the title of a second page
MorePageSuffix == <<" ", "deo", " ", "bo", "gi">>

\* the quote put around the utterance in the title of a search list card
Quote == <<"'">>

\* any(keyword in utterance for keyword in keywords)
ContainsAny(utterance, keywords) ==
  \E k \in keywords : Contains(utterance, k)

\* s.replace(old, ""): the occurrences of old are taken out, left to right
RECURSIVE Remove(_, _)
Remove(s, old) ==
  IF Len(s) < Len(old) \/ old = <<>> THEN s
  ELSE IF SubSeq(s, 1, Len(old)) = old
       THEN Remove(SubSeq(s, Len(old) + 1, Len(s)), old)
       ELSE <<Head(s)>> \o Remove(Tail(s), old)

\* a card without header, items and button, for responses without list card
NoCard == [header |-> <<>>, items |-> <<>>, more |-> <<>>]

\* the return statements placed after the indexer.search call of the search
\* stage
AfterSearch == {"search_one", "search_list", "products", "no_results"}

\* a response: the return statement that produced it, its version, the
\* kinds of its outputs, its list card, the list handed to list_card and
\* whether indexer.search ran on the way to it
Response(route, outputs, card, listed) ==
  [route |-> route, version |-> "2.0", outputs |-> outputs, card |-> card,
   listed |-> listed, searched |-> route \in AfterSearch]

\* a response of a text and a list card
ListResponse(route, title, items) ==
  Response(route, <<"simpleText", "listCard">>, list_card(title, items),
           items)

\* the exception left the handler: no response
Raised ==
  [route |-> "raised", version |-> "", outputs |-> <<>>, card |-> NoCard,
   listed |-> <<>>, searched |-> FALSE]

\* the pagination handler: the list the query of a "more" utterance names
MoreResults(idx, query) ==
  IF query \in QnaNames THEN GetByCategory(idx, "QnA")
  ELSE IF query \in SelftestNames THEN GetByCategory(idx, "Selftest")
  ELSE Search(idx, query)

\* the pagination handler: results[5:10] as a list card, or the message
\* that nothing more is left
MoreResponse(query, results) ==
  LET next_items == SubSeq(results, 6, Min(10, Len(results)))
      response == IF next_items # <<>>
                  THEN ListResponse("more", query \o MorePageSuffix,
                                    next_items)
                  ELSE Response("more_none", <<"simpleText">>, NoCard, <<>>)
  IN [response EXCEPT !.searched = query \notin QnaNames \cup SelftestNames]

\* the query of a "more" utterance
MoreQuery(utterance) ==
  Strip(Remove(Remove(utterance, SearchMoreSuffix), MoreSuffix))

\* "0-4. Handle Pagination (More Results)"
MorePage(idx, utterance) ==
  MoreResponse(MoreQuery(utterance), MoreResults(idx, MoreQuery(utterance)))

\* the answer of the search stage to the results of the search
SearchResponse(idx, utterance, results) ==
  IF results # <<>>
  THEN IF Len(results) = 1
       THEN Response("search_one", <<"simpleText", "basicCard">>, NoCard,
                     <<>>)
       ELSE ListResponse("search_list",
              Quote \o utterance \o Quote \o SearchTitleSuffix, results)
  ELSE IF ContainsAny(utterance, ProductKeywords)
  THEN ListResponse("products", ProductsTitle,
                    GetByCategory(idx, "Products"))
  ELSE Response("no_results", <<"simpleText">>, NoCard, <<>>)

\* "2. Handle Search" and what follows it
SearchStage(idx, utterance) ==
  SearchResponse(idx, utterance, Search(idx, utterance))

\* the category stage with the two tests in the other order
CategoryStageQnaFirst(idx, utterance) ==
  IF ContainsAny(utterance, QnaKeywords)
  THEN ListResponse("qna", QnaTitle, GetByCategory(idx, "QnA"))
  ELSE IF ContainsAny(utterance, SelftestKeywords)
  THEN ListResponse("selftest", SelftestTitle,
                    GetByCategory(idx, "Selftest"))
  ELSE IF Contains(utterance, AgentKeyword)
  THEN Response("agent", <<"simpleText", "basicCard">>, NoCard, <<>>)
  ELSE IF Contains(utterance, HomepageKeyword)
  THEN Response("homepage", <<"basicCard">>, NoCard, <<>>)
  ELSE IF ContainsAny(utterance, DeliveryKeywords) \/ utterance = DeliveryWord
  THEN Response("delivery", <<"basicCard">>, NoCard, <<>>)
  ELSE IF ContainsAny(utterance, CompanyKeywords)
  THEN Response("company", <<"simpleText", "basicCard">>, NoCard, <<>>)
  ELSE SearchStage(idx, utterance)

\* "1. Handle Category Requests" and the keyword cards after it
CategoryStage(idx, utterance) ==
  IF ContainsAny(utterance, SelftestKeywords)
  THEN ListResponse("selftest", SelftestTitle,
                    GetByCategory(idx, "Selftest"))
  ELSE IF ContainsAny(utterance, QnaKeywords)
  THEN ListResponse("qna", QnaTitle, GetByCategory(idx, "QnA"))
  ELSE IF Contains(utterance, AgentKeyword)
  THEN Response("agent", <<"simpleText", "basicCard">>, NoCard, <<>>)
  ELSE IF Contains(utterance, HomepageKeyword)
  THEN Response("homepage", <<"basicCard">>, NoCard, <<>>)
  ELSE IF ContainsAny(utterance, DeliveryKeywords) \/ utterance = DeliveryWord
  THEN Response("delivery", <<"basicCard">>, NoCard, <<>>)
  ELSE IF ContainsAny(utterance, CompanyKeywords)
  THEN Response("company", <<"simpleText", "basicCard">>, NoCard, <<>>)
  ELSE SearchStage(idx, utterance)

\* the body of the try block, from the utterance on
Route(idx, utterance) ==
  IF utterance \in HomeKeywords
  THEN Response("home", <<"simpleText", "carousel">>, NoCard, <<>>)
  ELSE IF ContainsAny(utterance, UsageKeywords)
  THEN Response("usage", <<"simpleText">>, NoCard, <<>>)
  ELSE IF Contains(utterance, TvRecommendKeyword)
  THEN Response("tv_prompt", <<"simpleText">>, NoCard, <<>>)
  ELSE IF ContainsAny(utterance, keywords_ott)
  THEN Response("tv_ott", <<"card">>, NoCard, <<>>)
  ELSE IF ContainsAny(utterance, keywords_game)
  THEN Response("tv_game", <<"card">>, NoCard, <<>>)
  ELSE IF \/ ContainsAny(utterance, keywords_broadcast)
          \/ ContainsAny(utterance, keywords_any)
  THEN Response("tv_broadcast", <<"card">>, NoCard, <<>>)
  ELSE IF Contains(Lower(utterance), TvLower) \/ Contains(utterance, TvHangul)
  THEN Response("tv_unrecognized", <<"simpleText">>, NoCard, <<>>)
  ELSE IF Contains(utterance, MoreKeyword)
  THEN MorePage(idx, utterance)
  ELSE CategoryStage(idx, utterance)

\* the request bodies: a JSON object with an utterance, objects that lack
\* userRequest or utterance, and bodies on which the try block raises
BodyShapes ==
  {"utterance", "no_request", "no_utterance", "null_request",
   "null_utterance", "not_object", "bad_json"}

Body(shape, utterance) == [shape |-> shape, utterance |-> utterance]

\* request.json(), body.get and user_request.get(...).strip() raise
BodyRaises(body) ==
  body.shape \in {"null_request", "null_utterance", "not_object", "bad_json"}

\* user_request.get("utterance", "").strip()
UtteranceOf(body) ==
  IF body.shape = "utterance" THEN Strip(body.utterance) ELSE <<>>

\* the except branch: error.log is opened for writing, then the error
\* response is returned; when the file cannot be opened the error of open()
\* leaves the handler
ExceptBranch(logWritable) ==
  IF logWritable THEN Response("error", <<"simpleText">>, NoCard, <<>>)
  ELSE Raised

\* fallback(request)
fallback(idx, body, logWritable) ==
  IF BodyRaises(body) THEN ExceptBranch(logWritable)
  ELSE Route(idx, UtteranceOf(body))

----------------------------------------------------------------------------
(* Conversations with the fallback endpoint over a built index *)

MaxChatDocs == 6

\* the document folders a category folder can hold, in listing order
ChatTitles ==
  << <<"b", " ", "a">>, <<"b", "a">>, <<"a", " ", "a">>, <<"a", "a">>,
     <<"a", "b">>, <<"a", "a", "b">>, <<"a", " ", "b">> >>

\* the trees whose category folders hold the first folders of ChatTitles
ChatTrees ==
  {[EmptyTree EXCEPT
      !.cats["QnA"].entries = DocListing(ChatTitles, 1..n[1]),
      !.cats["Selftest"].entries = DocListing(ChatTitles, 1..n[2]),
      !.cats["Products"].entries = DocListing(ChatTitles, 1..n[3])] :
     n \in (0..Min(MaxChatDocs, Len(ChatTitles)))
           \X (0..Min(MaxChatDocs, Len(ChatTitles)))
           \X (0..Min(MaxChatDocs, Len(ChatTitles)))}

\* what users type or send by the buttons of the welcome carousel
UtterancePool ==
  {<<"ja", "ga", " ", "jin", "dan", " ", "ri", "seu", "teu", " ", "bo",
     "yeo", "jwo">>,
   <<"Q", "n", "A", " ", "ri", "seu", "teu", " ", "bo", "yeo", "jwo">>,
   <<"sang", "dam", "won", " ", "yeon", "gyeol">>,
   <<"hom", "eu", "ro">>,
   <<"chaes", "bos", " ", "sa", "yong", "beob">>,
   <<"na", "eh", "ge", " ", "maj", "neun", " ", "T", "V", " ", "chu",
     "cheon", "hae", "jwo">>,
   <<"ge", "im", "yong", " ", "T", "V", " ", "chu", "cheon", "hae", "jwo">>,
   <<"je", "pum">>,
   <<"bae", "song">>,
   <<"hoe", "sa", " ", "so", "gae">>,
   <<"hom", "pe", "ih", "ji", " ", "ih", "dong">>,
   <<"nes", "peul", "rig", "seu", "yong", " ", "T", "V", " ", "chu", "cheon",
     "hae", "jwo">>,
   <<"bang", "song", " ", "si", "cheong", "yong", " ", "T", "V", " ", "chu",
     "cheon", "hae", "jwo">>,
   <<"a">>,
   <<"b", "a">>,
   <<" ", "a", " ">>,
   <<"x">>,
   <<"T", "V">>,
   <<"mo", "del", " ", "a">>,
   <<"jil", "mun">>,
   <<"te", "seu", "teu", " ", "ri", "seu", "teu">>}

BodyPool ==
  {Body("utterance", u) : u \in UtterancePool}
  \cup {Body(shape, <<>>) : shape \in BodyShapes \ {"utterance"}}

InitChat ==
  /\ tree \in ChatTrees
  /\ index = BuildIndex(tree)
  /\ prev = <<>>
  /\ rl = Idle
  /\ call = NoCall

\* a request reaches /api/fallback; ret holds the response
DoFallback ==
  /\ call = NoCall
  /\ \E body \in BodyPool, logWritable \in BOOLEAN :
       call' = [op |-> "fallback", arg |-> UtteranceOf(body), seen |-> index,
                ret |-> <<fallback(index, body, logWritable)>>]
  /\ UNCHANGED <<tree, index, prev, rl>>

\* the user taps the "more" button of the list card just received: its
\* messageText comes back as the utterance; ret holds the new response
\* before the one whose button was tapped
TapMore ==
  /\ call.op = "fallback"
  /\ call.ret[1].card.more # <<>>
  /\ call' = [op |-> "more", arg |-> call.ret[1].card.more, seen |-> index,
              ret |-> <<fallback(index,
                                 Body("utterance", call.ret[1].card.more),
                                 TRUE),
                        call.ret[1]>>]
  /\ UNCHANGED <<tree, index, prev, rl>>

NextChat == DoFallback \/ TapMore \/ Return

SpecChat == InitChat /\ [][NextChat]_vars

\* every response carries version "2.0" and at least one output
AnswersWellFormed ==
  (call.op \in {"fallback", "more"} /\ call.ret[1].route # "raised") =>
    call.ret[1].version = "2.0" /\ call.ret[1].outputs # <<>>

\* items 6 to 10 of a list
SecondPage(list) == SubSeq(list, 6, Min(10, Len(list)))

\* C21: when the "more" button of a list card is tapped, the answer lists
\* items 6 to 10 of the list that produced the card, whether a category
\* list or a search result; it is the "nothing more to show" message only
\* when that list has no 6th item.
C21_MoreGivesSecondPage ==
  call.op = "more" =>
    LET source == call.ret[2].listed
    IN IF Len(source) >= 6
       THEN /\ call.ret[1].route = "more"
            /\ call.ret[1].listed = SecondPage(source)
       ELSE call.ret[1].route = "more_none"

\* the "more" button of a category list card gives items 6 to 10 of the
\* category
CategoryMoreGivesSecondPage ==
  (call.op = "more" /\ call.ret[2].route \in {"selftest", "qna"}) =>
    /\ call.ret[1].route = "more"
    /\ call.ret[1].listed = SecondPage(call.ret[2].listed)

\* the utterance matches none of the handlers placed before the category
\* stage: home, usage, TV recommendation and pagination
ReachesCategoryStage(utterance) ==
  /\ utterance \notin HomeKeywords
  /\ ~ContainsAny(utterance, UsageKeywords)
  /\ ~Contains(utterance, TvRecommendKeyword)
  /\ ~ContainsAny(utterance, keywords_ott \cup keywords_game)
  /\ ~ContainsAny(utterance, keywords_broadcast \cup keywords_any)
  /\ ~Contains(Lower(utterance), TvLower)
  /\ ~Contains(utterance, TvHangul)
  /\ ~Contains(utterance, MoreKeyword)

\* the utterance matches none of the keyword handlers placed before the
\* document search
ReachesSearch(utterance) ==
  /\ ReachesCategoryStage(utterance)
  /\ ~ContainsAny(utterance, SelftestKeywords \cup QnaKeywords)
  /\ ~Contains(utterance, AgentKeyword)
  /\ ~Contains(utterance, HomepageKeyword)
  /\ ~ContainsAny(utterance, DeliveryKeywords)
  /\ utterance # DeliveryWord
  /\ ~ContainsAny(utterance, CompanyKeywords)

\* the records of category c in the index the call read
OfCategory(c) ==
  PickFrom(call.seen, {i \in 1..Len(call.seen) : call.seen[i].category = c}, 1)

\* a request was answered, by a response or by the error response
Answered == call.op \in {"fallback", "more"} /\ call.ret[1].route # "raised"

\* the utterance matches none of the handlers placed before the pagination
\* handler and matches that one
ReachesPagination(utterance) ==
  /\ utterance \notin HomeKeywords
  /\ ~ContainsAny(utterance, UsageKeywords)
  /\ ~Contains(utterance, TvRecommendKeyword)
  /\ ~ContainsAny(utterance, keywords_ott \cup keywords_game)
  /\ ~ContainsAny(utterance, keywords_broadcast \cup keywords_any)
  /\ ~Contains(Lower(utterance), TvLower)
  /\ ~Contains(utterance, TvHangul)
  /\ Contains(utterance, MoreKeyword)

\* an utterance that reaches the category stage with a Selftest keyword is
\* answered with the Selftest list
SelftestBeforeQna ==
  (Answered /\ call.ret[1].route # "error"
     /\ ReachesCategoryStage(call.arg)
     /\ ContainsAny(call.arg, SelftestKeywords)) =>
    /\ call.ret[1].route = "selftest"
    /\ call.ret[1].card.header = SelftestTitle
    /\ call.ret[1].listed = OfCategory("Selftest")

\* C23: an utterance that reaches the category stage and contains a
\* Selftest keyword is answered with the Selftest list, even if it also
\* contains a QnA keyword; the document search is invoked only for
\* utterances that match none of the keyword handlers placed before it.
C23_RoutingPrecedence ==
  /\ SelftestBeforeQna
  /\ (Answered /\ call.ret[1].searched) => ReachesSearch(call.arg)

\* C23 as amended: the Selftest list precedes the QnA list as stated; the
\* document search is invoked for utterances that match none of the keyword
\* handlers placed before the search stage and, by the pagination handler,
\* for utterances with the "more" keyword that match no handler before it.
C23_SearchAlsoFromPagination ==
  /\ SelftestBeforeQna
  /\ (Answered /\ call.ret[1].searched) =>
       \/ ReachesSearch(call.arg) /\ call.ret[1].route \in AfterSearch
       \/ ReachesPagination(call.arg)
            /\ call.ret[1].route \in {"more", "more_none"}

\* an utterance with a Selftest keyword and a QnA keyword was answered with
\* the Selftest list, which differs from the QnA list
C23_Witness ==
  /\ Answered
  /\ ContainsAny(call.arg, SelftestKeywords)
  /\ ContainsAny(call.arg, QnaKeywords)
  /\ call.ret[1].route = "selftest"
  /\ call.ret[1].listed # <<>>
  /\ Len(OfCategory("QnA")) # Len(call.ret[1].listed)

\* C24: the fallback handler answers every request body, also one without
\* userRequest or utterance and one on which its processing raises, with a
\* response of version "2.0" and at least one output; no exception leaves
\* the handler.
C24_AlwaysAnswers ==
  call.op \in {"fallback", "more"} =>
    /\ call.ret[1].route # "raised"
    /\ call.ret[1].version = "2.0"
    /\ call.ret[1].outputs # <<>>
====
